---- MODULE Spec2Model ----
(***************************************************************************)
(* rust-script: the build-cache orchestration of src/main.rs.              *)
(*                                                                         *)
(* The state is the file system (the package directories with their        *)
(* manifest, script and metadata files), a clock, and for every            *)
(* invocation of the program its position in try_main /                    *)
(* gen_pkg_and_compile / overwrite_file together with its locals.          *)
(*                                                                         *)
(* File contents are sequences of chunks (small integers): a text is       *)
(* written to a temporary file chunk by chunk and the temporary file is    *)
(* then renamed onto its destination.  Option<T> is a sequence of length   *)
(* 0 (None) or 1 (Some).                                                   *)
(***************************************************************************)
EXTENDS Integers, Sequences, FiniteSets, TLC

\* ------------------------------------------------------------------ bounds
\* runs (invocations of the program) started in one behaviour
MaxRuns == 3
\* the clock's last tick
MaxTime == 2
\* faults in one behaviour: processes killed and I/O operations that fail
MaxFaults == 1
\* the length of the script names package_name is applied to
MaxNameLen == 3

\* ------------------------------------------------------------ basic values
None == <<>>
Some(x) == <<x>>

Procs == {1, 2}

BuildKinds == {"Normal", "Test", "Bench"}

\* Script paths given on the command line, and the bodies the files can have.
ScriptPaths == {1}
Bodies == {1, 2}
\* Sorted dependency lists (--dep), each named by a code.
DepLists == {1, 2}
\* The explicit package path of --pkg-path.
UserPkgPaths == {1}

\* args.script is None: the command line names no script.
NoScript == 0
\* find_script finds no file under the script's name.
NoFile == 0
\* A body the manifest cannot be rendered from: split_input returns an error.
BadBody == 3
\* Scripts at other paths, whose packages are further entries of the cache.
OtherScripts == {2, 3}

\* --------------------------------------------------------------- strings
\* A string is a sequence of characters.  The characters of the model:
Digits == {"1", "9"}
Lowers == {"a", "b", "c", "i", "p", "r", "s", "t", "z"}
Uppers == {"A", "S", "Z"}

\* char::to_ascii_lowercase
to_ascii_lowercase(c) ==
    CASE c = "A" -> "a"
      [] c = "S" -> "s"
      [] c = "Z" -> "z"
      [] OTHER   -> c

\* The order of the characters (their code points), as String's Ord uses it.
CodePoint(c) ==
    CASE c = " " -> 32 [] c = "*" -> 42 [] c = "-" -> 45 [] c = "." -> 46
      [] c = "1" -> 49 [] c = "2" -> 50 [] c = "9" -> 57 [] c = "=" -> 61
      [] c = "A" -> 65 [] c = "S" -> 83 [] c = "Z" -> 90 [] c = "_" -> 95
      [] c = "a" -> 97 [] c = "b" -> 98 [] c = "c" -> 99 [] c = "i" -> 105
      [] c = "p" -> 112 [] c = "r" -> 114 [] c = "s" -> 115 [] c = "t" -> 116
      [] c = "z" -> 122

\* s < t for strings
RECURSIVE StrLess(_, _)
StrLess(s, t) ==
    IF t = <<>> THEN FALSE
    ELSE IF s = <<>> THEN TRUE
    ELSE IF s[1] # t[1] THEN CodePoint(s[1]) < CodePoint(t[1])
    ELSE StrLess(Tail(s), Tail(t))

\* A mutant of package_name_push: an uppercase letter is kept as it is.
package_name_push_keeps_case(i, c) ==
    IF i = 0 /\ c \in Digits THEN <<"_", c>>
    ELSE IF c \in Digits \cup Lowers \cup Uppers \cup {"_", "-"} THEN <<c>>
    ELSE <<"_">>

\* Input::package_name, lines 689-704: what is pushed for the character c
\* at index i.
package_name_push(i, c) ==
    IF i = 0 /\ c \in Digits THEN <<"_", c>>
    ELSE IF c \in Digits \cup Lowers \cup {"_", "-"} THEN <<c>>
    ELSE IF c \in Uppers THEN <<to_ascii_lowercase(c)>>
    ELSE <<"_">>

\* Input::package_name, lines 684-708, on the characters of name from index i on.
RECURSIVE package_name_from(_, _)
package_name_from(name, i) ==
    IF i >= Len(name) THEN <<>>
    ELSE package_name_push(i, name[i + 1]) \o package_name_from(name, i + 1)

package_name(name) == package_name_from(name, 0)

\* ---------------------------------------------------------- dependencies
\* The --dep arguments of a command line, each list named by a code.  The
\* first two are the lists that are sorted as they stand.
DepArgs ==
    << <<>>,
       << <<"a", "=", "*">> >>,
       << <<"a">> >>,
       << <<"b", "=", "1">>, <<"a">> >>,
       << <<"a">>, <<"a">> >>,
       << <<"a", "=", "1">>, <<"a", "=", "2">> >>,
       << <<"=", "1">> >>,
       << <<"a", "=">> >> >>

\* str::find('='): the index of the first '=', 0 when there is none.
RECURSIVE find_eq(_, _)
find_eq(dep, i) ==
    IF i > Len(dep) THEN 0
    ELSE IF dep[i] = "=" THEN i
    ELSE find_eq(dep, i + 1)

\* try_main, lines 113-120: "=*" is appended to a bare name, and the
\* argument is split at its first '='.
split_dep(dep) ==
    LET full == IF find_eq(dep, 1) = 0 THEN dep \o <<"=", "*">> ELSE dep
        at == find_eq(full, 1)
    IN  <<SubSeq(full, 1, at - 1), SubSeq(full, at + 1, Len(full))>>

\* (String, String)'s Ord
PairLess(x, y) == StrLess(x[1], y[1]) \/ (x[1] = y[1] /\ StrLess(x[2], y[2]))

\* try_main, lines 138-139: the map's entries as a sorted vector.
RECURSIVE sort_deps(_)
sort_deps(S) ==
    IF S = {} THEN <<>>
    ELSE LET least == CHOOSE x \in S : \A y \in S \ {x} : PairLess(x, y)
         IN  <<least>> \o sort_deps(S \ {least})

\* try_main, lines 111-135: the arguments from index i on are put into the
\* map deps (a set of pairs); the first invalid one ends the run.
RECURSIVE collect_deps(_, _, _)
collect_deps(raw, i, deps) ==
    IF i > Len(raw) THEN <<"Ok", sort_deps(deps)>>
    ELSE LET name == split_dep(raw[i])[1]
             version == split_dep(raw[i])[2]
         IN  IF name = <<>> THEN <<"Err", "empty name">>
             ELSE IF version = <<>> THEN <<"Err", "empty version">>
             ELSE IF \E d \in deps : d[1] = name THEN <<"Err", "duplicated">>
             ELSE collect_deps(raw, i + 1, deps \cup {<<name, version>>})

\* try_main, lines 107-141
dependencies_from_args(raw) == collect_deps(raw, 1, {})

\* try_main, lines 107-141, for each of the --dep argument lists.
ParsedDeps == [k \in DOMAIN DepArgs |-> dependencies_from_args(DepArgs[k])]

\* The sorted dependency lists, in the order of their codes.
SortedDeps ==
    << <<>>,
       << <<<<"a">>, <<"*">>>> >>,
       << <<<<"a">>, <<"*">>>>, <<<<"b">>, <<"1">>>> >> >>

\* The code of a sorted dependency list.
DepCode(deps) == CHOOSE k \in 1..Len(SortedDeps) : SortedDeps[k] = deps

\* Input::File(name, path, body); the name is the path's file stem.
FileInput(path, body) ==
    [kind |-> "File", name |-> path, path |-> path, content |-> body]

\* sha1 as a hex number: injective on the texts of the model (chunks < 16).
RECURSIVE hash_str(_)
hash_str(s) ==
    IF s = <<>> THEN 1
    ELSE hash_str(SubSeq(s, 1, Len(s) - 1)) * 16 + s[Len(s)]

\* Input::safe_name
safe_name(input) == IF input.kind = "File" THEN input.name ELSE 0

\* A mutant of compute_id: the content of a file is hashed with its path.
compute_id_with_content(input, deps) ==
    IF input.kind = "File"
    THEN hash_str(<<input.path, input.content>>)
    ELSE hash_str(<<deps, input.content>>)

\* Input::compute_id: for a file the digest of the path alone, for an
\* expression the digest of the dependencies followed by the content.  The
\* digests of the model are shorter than the length they are truncated to.
compute_id(input, deps) ==
    IF input.kind = "File"
    THEN hash_str(<<input.path>>)
    ELSE hash_str(<<deps, input.content>>)

\* manifest::split_input: the rendered manifest and script text.  The manifest
\* is rendered from the package name and the dependencies, the script from
\* the prelude and the body.
split_input(input, deps, prelude) ==
    [manifest |-> <<safe_name(input), deps>>,
     script   |-> <<prelude, input.content>>]

\* ------------------------------------------------------------- file system
CacheDir(id) == <<"cache", id>>
UserDir(k) == <<"user", k>>

Dirs ==
    {CacheDir(compute_id(FileInput(p, b), d)) :
        p \in ScriptPaths \cup OtherScripts, b \in Bodies, d \in DepLists}
    \cup {UserDir(k) : k \in UserPkgPaths}

\* The directories directly under platform::generated_projects_cache_path.
CacheEntries == {d \in Dirs : d[1] = "cache"}
\* What else can be directly under it: plain files.
RootFiles == {"notes.txt"}
\* What platform::binary_cache_path can hold: the build tool's own
\* directories, and entries nothing of this program knows.
BinEntries == {"release", "stray"}

ManifestFile == "Cargo.toml"
MetadataFile == "metadata.json"
ScriptFile(name) == IF name = 1 THEN "a.rs" ELSE "expr.rs"
FileNames == {ManifestFile, MetadataFile} \cup {ScriptFile(n) : n \in {0, 1}}

NoDir == [exists |-> FALSE, files |-> [f \in FileNames |-> None], orphans |-> {}]
EmptyDir == [exists |-> TRUE, files |-> [f \in FileNames |-> None], orphans |-> {}]

\* serde_json::to_writer / from_str of PackageMetadata
Encode(m) ==
    <<m.path, IF m.debug THEN 1 ELSE 0, m.deps, m.prelude, m.features,
      m.manifest_hash, m.script_hash>>

Decode(data) ==
    IF Len(data) = 7 /\ data[2] \in {0, 1}
    THEN Some([path |-> data[1], debug |-> data[2] = 1, deps |-> data[3],
               prelude |-> data[4], features |-> data[5],
               manifest_hash |-> data[6], script_hash |-> data[7]])
    ELSE None

\* A chunk of a file that is no UTF-8.
NotUtf8 == 255

\* read_to_string, line 575: fails on a file that is no UTF-8.
read_to_string_fails(data) == \E i \in 1..Len(data) : data[i] = NotUtf8

\* get_pkg_metadata, line 575: the file was opened and reading it fails, so
\* the unwrap panics.
get_pkg_metadata_panics(f, dir) ==
    /\ f[dir].exists
    /\ f[dir].files[MetadataFile] # None
    /\ read_to_string_fails(f[dir].files[MetadataFile][1].data)

\* get_pkg_metadata: Err (None) when the file cannot be opened or decoded.
get_pkg_metadata(f, dir) ==
    IF ~f[dir].exists \/ f[dir].files[MetadataFile] = None
    THEN None
    ELSE Decode(f[dir].files[MetadataFile][1].data)

\* ---------------------------------------------------------------- planning
\* A mutant of normalize_flags: the user's force flag is kept for every build kind.
normalize_flags_keeps_force(a) ==
    CASE a.build_kind = "Normal" -> [debug |-> a.debug, force |-> a.force]
      [] a.build_kind = "Test"   -> [debug |-> TRUE,    force |-> a.force]
      [] a.build_kind = "Bench"  -> [debug |-> FALSE,   force |-> a.force]

\* decide_action_for, lines 479-483: the flags as the build kind overrides them.
normalize_flags(a) ==
    CASE a.build_kind = "Normal" -> [debug |-> a.debug, force |-> a.force]
      [] a.build_kind = "Test"   -> [debug |-> TRUE,    force |-> FALSE]
      [] a.build_kind = "Bench"  -> [debug |-> FALSE,   force |-> FALSE]

\* decide_action_for, lines 502-508
toolchain_version(a) ==
    IF a.toolchain_version # None THEN a.toolchain_version
    ELSE IF a.build_kind = "Bench" THEN Some("nightly") ELSE None

\* decide_action_for, lines 485-499: the metadata of the current invocation.
input_meta(input, deps, prelude, debug, features) ==
    [path |-> IF input.kind = "File" THEN input.path ELSE 0,
     debug |-> debug,
     deps |-> deps,
     prelude |-> prelude,
     features |-> features,
     manifest_hash |-> hash_str(split_input(input, deps, prelude).manifest),
     script_hash |-> hash_str(split_input(input, deps, prelude).script)]

\* decide_action_for: the plan for an input, read against the file system f.
decide_action_for(input, deps, prelude, a, f) ==
    LET input_id == compute_id(input, deps)
        using_cache == a.pkg_path = None
        pkg_path == IF using_cache THEN CacheDir(input_id) ELSE UserDir(a.pkg_path[1])
        texts == split_input(input, deps, prelude)
        flags == normalize_flags(a)
        action ==
            [cargo_output |-> a.cargo_output,
             force_compile |-> flags.force,
             emit_metadata |-> TRUE,
             execute |-> TRUE,
             pkg_path |-> pkg_path,
             using_cache |-> using_cache,
             toolchain_version |-> toolchain_version(a),
             metadata |-> input_meta(input, deps, prelude, flags.debug, a.features),
             old_metadata |-> None,
             manifest |-> texts.manifest,
             script |-> texts.script,
             build_kind |-> a.build_kind]
    IN  IF a.gen_pkg_only
        THEN [action EXCEPT !.execute = FALSE]
        ELSE IF a.build_kind # "Normal"
        THEN [action EXCEPT !.force_compile = FALSE]
        ELSE [action EXCEPT !.old_metadata = get_pkg_metadata(f, pkg_path)]

\* manifest::split_input returns an error (line 476, `?`).
split_input_fails(input) == input.content = BadBody

\* decide_action_for, lines 548 and 575: a Normal build that is to be run
\* reads the previous metadata, and panics when the read fails.
decide_panics(input, deps, a, f) ==
    /\ ~a.gen_pkg_only
    /\ a.build_kind = "Normal"
    /\ get_pkg_metadata_panics(f,
            IF a.pkg_path = None THEN CacheDir(compute_id(input, deps))
            ELSE UserDir(a.pkg_path[1]))

\* ------------------------------------------------------------------- state
VARIABLES
    fs,       \* the directories: [Dirs -> [exists, files, orphans]]
    now,      \* platform::current_time
    pc,       \* where each invocation stands
    step,     \* its position in gen_pkg_and_compile's writes (0: a lone overwrite_file call)
    args,     \* its command line and the script body it read
    action,   \* its plan (InputAction)
    meta,     \* gen_pkg_and_compile's local `meta`
    tmp,      \* its NamedTempFile, if one is open
    ret,      \* what its last overwrite_file call returned
    res,      \* what the manifest and the script write of this run returned
    wlog,     \* the files this run has replaced, in order
    err,      \* the operation whose error ended this run
    prev,     \* how the invocation's previous run ended
    owcall,   \* the arguments of a lone overwrite_file call
    runs, crashes, fails,
    cache,    \* the cache roots: the generated-projects root and the binary cache
    sw,       \* the clean_cache call each invocation is in
    run,      \* what try_main of each invocation has done so far
    unix,     \* cfg(unix): the build replaces the process image by the tool
    env       \* the environment variables each invocation has set

vars == <<fs, now, pc, step, args, action, meta, tmp, ret, res, wlog, err, prev,
          owcall, runs, crashes, fails, cache, sw, run, unix, env>>

\* what the steps of gen_pkg_and_compile and overwrite_file leave alone
mainvars == <<cache, sw, unix, env>>

\* the input try_main resolves from the command line (lines 72-90)
InputOf(a) == FileInput(a.script, a.body)

NoArgs ==
    [script |-> 1, body |-> 1, dep |-> 1, debug |-> FALSE, force |-> FALSE,
     gen_pkg_only |-> FALSE, build_kind |-> "Normal", pkg_path |-> None,
     toolchain_version |-> None, features |-> 0, cargo_output |-> FALSE,
     clear_cache |-> FALSE]

\* Every command line over the flags planning reads.
AllArgs ==
    [script : ScriptPaths, body : Bodies, dep : DepLists, debug : BOOLEAN,
     force : BOOLEAN, gen_pkg_only : BOOLEAN, build_kind : BuildKinds,
     pkg_path : {None} \cup {Some(k) : k \in UserPkgPaths},
     toolchain_version : {None, Some("beta")}, features : {0},
     cargo_output : {FALSE}, clear_cache : {FALSE}]

\* The command lines of the runs that are followed through materialization:
\* plain runs of the variants of the script in the cache and in a user's
\* directory, and forced, generate-only and test runs in the cache.
RunArgs ==
    {a \in AllArgs :
        /\ a.debug = FALSE /\ a.toolchain_version = None
        /\ <<a.body, a.dep>> \in {<<1, 1>>, <<2, 1>>, <<2, 2>>}
        /\ \/ /\ a.build_kind = "Normal" /\ ~a.force /\ ~a.gen_pkg_only
              /\ a.pkg_path # None => a.body = a.dep
           \/ /\ a.pkg_path = None /\ a.dep = 1
              /\ \/ a.build_kind = "Normal" /\ a.force /\ ~a.gen_pkg_only
                 \/ a.build_kind = "Normal" /\ ~a.force /\ a.gen_pkg_only /\ a.body = 1
                 \/ a.build_kind = "Test" /\ a.force /\ ~a.gen_pkg_only /\ a.body = 1}

\* the dependencies try_main makes of the --dep arguments (lines 107-141)
DepsOf(a) == DepCode(ParsedDeps[a.dep][2])

PlanOf(a, f) == decide_action_for(InputOf(a), DepsOf(a), 0, a, f)

NoCall == [file |-> ManifestFile, content |-> <<>>, hash |-> None, before |-> None, last |-> None]
NoRes == [manifest |-> None, script |-> None]
NoPrev == [end |-> "none", dir |-> UserDir(1)]

\* No clean_cache call is under way.
NoSweep ==
    [max_age |-> 0, cutoff |-> 0, todo |-> {}, caller |-> "none",
     before |-> <<>>, bin_before |-> None, failed |-> {}, unopened |-> {},
     result |-> "none"]

\* try_main has done nothing yet: no file system operation, no deferred
\* clean_cache, no command, no value returned, no exit status.
NoRun ==
    [io |-> <<>>, materialized |-> FALSE, swept |-> FALSE, cmd |-> FALSE,
     result |-> None, status |-> None]

NoEnv == [safe_name |-> <<>>, pkg_name |-> <<>>]

\* The cache roots that go with the directories f: the generated-projects
\* root is there when an entry of it is, the binary cache is not.
CacheOf(f) ==
    [root |-> \E d \in CacheEntries : f[d].exists, files |-> {}, bin |-> None]

InitAll(f, c, u, t) ==
    /\ fs = f
    /\ now = t
    /\ cache = c
    /\ unix = u
    /\ sw = [p \in Procs |-> NoSweep]
    /\ run = [p \in Procs |-> NoRun]
    /\ env = [p \in Procs |-> NoEnv]
    /\ pc = [p \in Procs |-> "idle"]
    /\ step = [p \in Procs |-> 1]
    /\ args = [p \in Procs |-> NoArgs]
    /\ action = [p \in Procs |-> PlanOf(NoArgs, [d \in Dirs |-> NoDir])]
    /\ meta = [p \in Procs |-> PlanOf(NoArgs, [d \in Dirs |-> NoDir]).metadata]
    /\ tmp = [p \in Procs |-> None]
    /\ ret = [p \in Procs |-> None]
    /\ res = [p \in Procs |-> NoRes]
    /\ wlog = [p \in Procs |-> <<>>]
    /\ err = [p \in Procs |-> "none"]
    /\ prev = [p \in Procs |-> NoPrev]
    /\ owcall = [p \in Procs |-> NoCall]
    /\ runs = 0
    /\ crashes = 0
    /\ fails = 0

InitWith(f) == InitAll(f, CacheOf(f), TRUE, 0)

\* No package directory exists yet.
Init == InitWith([d \in Dirs |-> NoDir])

\* ---------------------------------------------------------- materialization
\* A mutant of gen_pkg_order: the metadata is written before the script.
gen_pkg_order_metadata_early == <<"manifest", "metadata", "script">>

\* gen_pkg_and_compile, lines 296-334: the files in the order they are settled.
gen_pkg_order == <<"manifest", "script", "metadata">>

\* What the invocation is writing: a step of gen_pkg_and_compile, or the file
\* of a lone overwrite_file call.
Kind(p) == IF step[p] = 0 THEN "lone" ELSE gen_pkg_order[step[p]]

\* gen_pkg_and_compile, line 300: the previous hash the manifest is compared with.
mani_hash(act) ==
    IF act.old_metadata = None THEN None
    ELSE Some(act.old_metadata[1].manifest_hash)

\* A mutant of script_hash: the force flag is not looked at.
script_hash_ignores_force(act) ==
    IF act.old_metadata = None THEN None
    ELSE Some(act.old_metadata[1].script_hash)

\* gen_pkg_and_compile, lines 314-319: the previous hash the script is compared with.
script_hash(act) ==
    IF act.force_compile THEN None
    ELSE IF act.old_metadata = None THEN None
    ELSE Some(act.old_metadata[1].script_hash)

CallDir(p) == IF Kind(p) = "lone" THEN UserDir(1) ELSE action[p].pkg_path

CallFile(p) ==
    CASE Kind(p) = "lone"     -> owcall[p].file
      [] Kind(p) = "manifest" -> ManifestFile
      [] Kind(p) = "script"   -> ScriptFile(safe_name(InputOf(args[p])))
      [] Kind(p) = "metadata" -> MetadataFile

CallContent(p) ==
    CASE Kind(p) = "lone"     -> owcall[p].content
      [] Kind(p) = "manifest" -> action[p].manifest
      [] Kind(p) = "script"   -> action[p].script
      [] Kind(p) = "metadata" -> Encode(meta[p])

CallHash(p) ==
    CASE Kind(p) = "lone"     -> owcall[p].hash
      [] Kind(p) = "manifest" -> mani_hash(action[p])
      [] Kind(p) = "script"   -> script_hash(action[p])
      [] Kind(p) = "metadata" -> None

\* A mutant of overwrite_same: the early return is gone, every call writes.
overwrite_same_never(content, hash) == FALSE

\* overwrite_file, lines 796-800: the content's hash is the previous hash.
overwrite_same(content, hash) == hash = Some(hash_str(content))

\* A mutant of write_all_done: one write is taken for the whole write_all.
write_all_done_after_one(data, content) == Len(data) >= 1

\* overwrite_file, line 808 (write_all): the temporary file holds the whole content.
write_all_done(data, content) == data = content

\* A mutant of after_write: the text is written into the destination itself.
after_write_in_place(f, dir, file, data, mtime) ==
    [f EXCEPT ![dir].files[file] = Some([data |-> data, mtime |-> mtime])]

\* overwrite_file, lines 807-808: the text is written to the temporary file,
\* which is no file of the package: the destination is left as it is.
after_write(f, dir, file, data, mtime) == f

\* util::Defer: the closure given to Defer::new runs when the guard goes out
\* of scope, unless disarm was called on it before.
defer_runs(disarmed) == ~disarmed

\* A mutant of cleanup_dir: the directory is removed whoever owns it.
cleanup_dir_always(f, act) == [f EXCEPT ![act.pkg_path] = NoDir]

\* gen_pkg_and_compile, lines 287-294: the armed cleanup_dir runs.
cleanup_dir(f, act) ==
    IF act.using_cache THEN [f EXCEPT ![act.pkg_path] = NoDir] ELSE f

\* A mutant of main_exit: an error of try_main is reported with status 0.
main_exit_hides_error(result) == IF result[1] = "Ok" THEN result[2] ELSE 0

\* main, lines 38-46: the status the process exits with for try_main's result.
main_exit(result) == IF result[1] = "Ok" THEN result[2] ELSE 1

\* The process has exited with a status of its own.
Exited(code) == Some([how |-> "exit", code |-> code])
\* The process image was replaced by the build tool (cmd.exec, line 185).
Replaced == Some([how |-> "exec", code |-> 0])
\* The status of a process that panicked.
PanicStatus == 101

\* The call of p has returned r: gen_pkg_and_compile takes the new hash
\* (lines 301-306, 320-325) and goes on to the next file; after the last one
\* it disarms the cleanup and try_main goes on (lines 336-339, 166-190):
\* when the plan is not to execute, Ok(0) is the value of its last block.
Finish(p, r) ==
    /\ ret' = [ret EXCEPT ![p] = r]
    /\ meta' = [meta EXCEPT ![p] =
            IF r[1] # "Changed" THEN @
            ELSE IF Kind(p) = "manifest" THEN [@ EXCEPT !.manifest_hash = r[2]]
            ELSE IF Kind(p) = "script" THEN [@ EXCEPT !.script_hash = r[2]]
            ELSE @]
    /\ res' = [res EXCEPT ![p] =
            IF Kind(p) = "manifest" THEN [@ EXCEPT !.manifest = Some(r[1])]
            ELSE IF Kind(p) = "script" THEN [@ EXCEPT !.script = Some(r[1])]
            ELSE @]
    /\ IF Kind(p) = "lone"
       THEN pc' = [pc EXCEPT ![p] = "ow_ret"] /\ step' = step
       ELSE IF step[p] = Len(gen_pkg_order)
       THEN /\ pc' = [pc EXCEPT ![p] = IF action[p].execute THEN "invoke" ELSE "drop"]
            /\ step' = step
       ELSE /\ pc' = [pc EXCEPT ![p] = "begin"]
            /\ step' = [step EXCEPT ![p] = @ + 1]
    /\ run' = [run EXCEPT ![p] =
            IF Kind(p) = "lone" \/ step[p] # Len(gen_pkg_order) THEN @
            ELSE [@ EXCEPT !.materialized = TRUE,
                           !.result = IF action[p].execute THEN @ ELSE <<"Ok", 0>>]]
    /\ UNCHANGED mainvars

\* An I/O operation of p returns an error: the temporary file is dropped, the
\* error is propagated with `?`, and the armed cleanup removes a cache-managed
\* package directory, and with it every temporary file open in it.
FailStep(p, injected) ==
    LET armed == Kind(p) # "lone" /\ pc[p] # "create_dir" /\ defer_runs(FALSE)
        cleans == armed /\ action[p].using_cache
    IN  /\ fails' = IF injected THEN fails + 1 ELSE fails
        /\ IF Kind(p) = "lone"
           THEN /\ pc' = [pc EXCEPT ![p] = "ow_ret"]
                /\ ret' = [ret EXCEPT ![p] = <<"Err">>]
                /\ err' = err
                /\ fs' = fs
                /\ run' = run
           ELSE /\ pc' = [pc EXCEPT ![p] = "error"]
                /\ ret' = ret
                /\ err' = [err EXCEPT ![p] =
                        IF pc[p] = "create_dir" THEN "create_dir" ELSE Kind(p)]
                /\ fs' = IF armed THEN cleanup_dir(fs, action[p]) ELSE fs
                /\ run' = [run EXCEPT ![p].result = <<"Err">>,
                                      ![p].status = Exited(main_exit(<<"Err">>))]
        /\ tmp' = [q \in Procs |->
                IF q = p THEN None
                ELSE IF cleans /\ tmp[q] # None /\ CallDir(q) = action[p].pkg_path
                THEN Some([tmp[q][1] EXCEPT !.linked = FALSE])
                ELSE tmp[q]]
        /\ UNCHANGED <<now, step, args, action, meta, res, wlog, prev, owcall, runs, crashes>>
        /\ UNCHANGED mainvars

\* How the run p has just ended, as its next run sees it.
EndOf(p) ==
    [end |-> IF pc[p] = "crashed" /\ wlog[p] # <<>>
                    /\ \A i \in 1..Len(wlog[p]) : wlog[p][i] # "metadata"
             THEN "crash_mid" ELSE pc[p],
     dir |-> action[p].pkg_path]

\* The name of the script at a path, as text: the path's file stem.
NameText(name) ==
    CASE name = 1 -> <<"a">>
      [] name = 2 -> <<"b">>
      [] name = 3 -> <<"c">>
      [] OTHER    -> <<"e", "x", "p", "r">>

\* try_main, lines 99-100: RUST_SCRIPT_SAFE_NAME and RUST_SCRIPT_PKG_NAME.
set_vars(name) == [safe_name |-> name, pkg_name |-> package_name(name)]

\* try_main, lines 66-164, for the command line a after the file system
\* operations io: without a script the run is over; else the script is found
\* and read, the environment is set, the dependencies are sorted out and
\* decide_action_for makes the plan.  The first error ends the run.
Resume(p, a, io) ==
    LET input == InputOf(a)
        found == a.body # NoFile
        deps == ParsedDeps[a.dep]
        plan == PlanOf(a, fs)
        end == IF a.script = NoScript THEN "cleared"
               ELSE IF ~found THEN "find_script"
               ELSE IF deps[1] = "Err" THEN "dependencies"
               ELSE IF split_input_fails(input) THEN "decide"
               ELSE IF decide_panics(input, DepCode(deps[2]), a, fs) THEN "panic"
               ELSE "none"
        io2 == IF a.script = NoScript THEN io
               ELSE IF ~found THEN io \o <<"open_script">>
               ELSE io \o <<"open_script", "read_script">>
        failed == [NoRun EXCEPT !.io = io2, !.result = <<"Err">>,
                                !.status = Exited(main_exit(<<"Err">>))]
    IN  /\ args' = [args EXCEPT ![p] = a]
        /\ env' = [env EXCEPT ![p] =
                IF a.script # NoScript /\ found THEN set_vars(NameText(safe_name(input)))
                ELSE NoEnv]
        /\ err' = [err EXCEPT ![p] = IF end = "cleared" THEN "none" ELSE end]
        /\ IF end = "none"
           THEN /\ action' = [action EXCEPT ![p] = plan]
                /\ meta' = [meta EXCEPT ![p] = plan.metadata]
                /\ pc' = [pc EXCEPT ![p] = "create_dir"]
                /\ run' = [run EXCEPT ![p] = [NoRun EXCEPT !.io = io2]]
           ELSE /\ action' = action
                /\ meta' = meta
                /\ pc' = [pc EXCEPT ![p] =
                        CASE end = "cleared" -> "done"
                          [] end = "panic"   -> "panicked"
                          [] OTHER           -> "error"]
                /\ run' = [run EXCEPT ![p] =
                        CASE end = "cleared" ->
                                [NoRun EXCEPT !.io = io2, !.result = <<"Ok", 0>>,
                                              !.status = Exited(main_exit(<<"Ok", 0>>))]
                          [] end = "panic" ->
                                [NoRun EXCEPT !.io = io2, !.status = Exited(PanicStatus)]
                          [] OTHER -> failed]

\* try_main, lines 49-164: the command line is parsed; with --clear-cache
\* clean_cache(0) is called first, else try_main goes on at once.
Start(p, A) ==
    /\ pc[p] \in {"idle", "done", "error", "crashed", "panicked"}
    /\ runs < MaxRuns
    /\ \E a \in A :
        IF a.clear_cache
        THEN /\ args' = [args EXCEPT ![p] = a]
             /\ pc' = [pc EXCEPT ![p] = "clean_cache"]
             /\ sw' = [sw EXCEPT ![p] = [NoSweep EXCEPT !.caller = "main"]]
             /\ run' = [run EXCEPT ![p] = NoRun]
             /\ err' = [err EXCEPT ![p] = "none"]
             /\ UNCHANGED <<action, meta, env>>
        ELSE /\ Resume(p, a, <<>>)
             /\ sw' = [sw EXCEPT ![p] = NoSweep]
    /\ step' = [step EXCEPT ![p] = 1]
    /\ ret' = [ret EXCEPT ![p] = None]
    /\ res' = [res EXCEPT ![p] = NoRes]
    /\ wlog' = [wlog EXCEPT ![p] = <<>>]
    /\ prev' = [prev EXCEPT ![p] = IF pc[p] = "idle" THEN NoPrev ELSE EndOf(p)]
    /\ runs' = runs + 1
    /\ UNCHANGED <<fs, now, tmp, owcall, crashes, fails, cache, unix>>

\* gen_pkg_and_compile, line 286: fs::create_dir_all.
CreateDir(p) ==
    /\ pc[p] = "create_dir"
    /\ fs' = [fs EXCEPT ![action[p].pkg_path].exists = TRUE]
    /\ cache' = [cache EXCEPT !.root = @ \/ action[p].using_cache]
    /\ pc' = [pc EXCEPT ![p] = "begin"]
    /\ UNCHANGED <<now, step, args, action, meta, tmp, ret, res, wlog, err, prev,
                   owcall, runs, crashes, fails, sw, run, unix, env>>

\* The next file is taken up.  overwrite_file (lines 796-807) returns Same
\* when the hashes agree and otherwise creates a temporary file in the
\* destination's directory; write_pkg_metadata (lines 331, 602) creates one
\* when the plan emits metadata.
Begin(p) ==
    /\ pc[p] = "begin"
    /\ IF Kind(p) = "metadata" /\ ~action[p].emit_metadata
       THEN /\ Finish(p, <<"Skipped">>)
            /\ UNCHANGED <<fs, now, args, action, tmp, wlog, err, prev, owcall,
                           runs, crashes, fails>>
       ELSE IF Kind(p) # "metadata" /\ overwrite_same(CallContent(p), CallHash(p))
       THEN /\ Finish(p, <<"Same">>)
            /\ UNCHANGED <<fs, now, args, action, tmp, wlog, err, prev, owcall,
                           runs, crashes, fails>>
       ELSE IF fs[CallDir(p)].exists
       THEN /\ tmp' = [tmp EXCEPT ![p] = Some([data |-> <<>>, mtime |-> now, linked |-> TRUE])]
            /\ pc' = [pc EXCEPT ![p] = "write"]
            /\ UNCHANGED <<fs, now, step, args, action, meta, ret, res, wlog, err,
                           prev, owcall, runs, crashes, fails, run>>
            /\ UNCHANGED mainvars
       ELSE FailStep(p, FALSE)

\* One write to the temporary file: write_all (line 808) writes the text a
\* chunk at a time, to_writer (line 603) writes the encoded metadata at once.
Write(p) ==
    /\ pc[p] = "write"
    /\ LET t == tmp[p][1]
           data == IF Kind(p) = "metadata" THEN CallContent(p)
                   ELSE Append(t.data, CallContent(p)[Len(t.data) + 1])
       IN  /\ tmp' = [tmp EXCEPT ![p] = Some([t EXCEPT !.data = data, !.mtime = now])]
           /\ pc' = [pc EXCEPT ![p] =
                   IF write_all_done(data, CallContent(p)) THEN "persist" ELSE "write"]
           /\ fs' = after_write(fs, CallDir(p), CallFile(p), data, now)
    /\ UNCHANGED <<now, step, args, action, meta, ret, res, wlog, err, prev,
                   owcall, runs, crashes, fails, run>>
    /\ UNCHANGED mainvars

\* temp_file.persist (lines 810, 605-607): the temporary file is renamed onto
\* the destination, which fails when the file is no longer there.
Persist(p) ==
    /\ pc[p] = "persist"
    /\ IF tmp[p][1].linked
       THEN /\ fs' = [fs EXCEPT ![CallDir(p)].files[CallFile(p)] =
                        Some([data |-> tmp[p][1].data, mtime |-> tmp[p][1].mtime])]
            /\ tmp' = [tmp EXCEPT ![p] = None]
            /\ wlog' = [wlog EXCEPT ![p] = Append(@, Kind(p))]
            /\ Finish(p, IF Kind(p) = "metadata" THEN <<"Written">>
                         ELSE <<"Changed", hash_str(CallContent(p))>>)
            /\ UNCHANGED <<now, args, action, err, prev, owcall, runs, crashes, fails>>
       ELSE FailStep(p, FALSE)

\* The environment fails the I/O operation p is about to make.
IOFail(p) ==
    /\ crashes + fails < MaxFaults
    /\ \/ pc[p] \in {"create_dir", "write", "persist"}
       \/ /\ pc[p] = "begin"
          /\ IF Kind(p) = "metadata" THEN action[p].emit_metadata
             ELSE ~overwrite_same(CallContent(p), CallHash(p))
    /\ FailStep(p, TRUE)

\* The process is killed during gen_pkg_and_compile: nothing is cleaned up,
\* and an open temporary file stays behind.
Crash(p) ==
    /\ crashes + fails < MaxFaults
    /\ pc[p] \in {"create_dir", "begin", "write", "persist"}
    /\ Kind(p) # "lone"
    /\ pc' = [pc EXCEPT ![p] = "crashed"]
    /\ crashes' = crashes + 1
    /\ tmp' = [tmp EXCEPT ![p] = None]
    /\ fs' = IF tmp[p] # None /\ tmp[p][1].linked
             THEN [fs EXCEPT ![CallDir(p)].orphans = @ \cup {tmp[p][1].data}]
             ELSE fs
    /\ UNCHANGED <<now, step, args, action, meta, ret, res, wlog, err, prev, owcall,
                   runs, fails, run>>
    /\ UNCHANGED mainvars

\* A mutant of cargo: --release is not blocked on bench.
cargo_releases_bench(build_kind, maybe_toolchain_version, m, run_quietly) ==
    [toolchain |-> maybe_toolchain_version,
     subcommand |-> build_kind,
     quiet |-> build_kind = "Normal" /\ run_quietly,
     release |-> ~m.debug,
     features |-> m.features]

\* cargo, lines 817-860: the arguments of the command, as what is on it:
\* `+toolchain` (826-828), the build kind's subcommand (829), `-q` (831-833),
\* `--release` (846-848) and `--features` (850-852).
cargo(build_kind, maybe_toolchain_version, m, run_quietly) ==
    [toolchain |-> maybe_toolchain_version,
     subcommand |-> build_kind,
     quiet |-> build_kind = "Normal" /\ run_quietly,
     release |-> ~m.debug /\ build_kind # "Bench",
     features |-> m.features]

\* try_main, lines 182-183 and 194-195, with InputAction::cargo (lines
\* 401-415): the command that is made of the plan of p.
CommandOf(p) ==
    cargo(action[p].build_kind, action[p].toolchain_version, action[p].metadata,
          ~action[p].cargo_output)

\* The exit codes of the build tool.
ToolCodes == {0, 2}

\* try_main, lines 179-202: the command is constructed and the tool is
\* started.  Under cfg(unix) exec replaces the process image and nothing of
\* try_main runs any more; elsewhere the process waits for the tool and the
\* tool's exit code is try_main's value.
Invoke(p) ==
    /\ pc[p] = "invoke"
    /\ IF unix
       THEN /\ pc' = [pc EXCEPT ![p] = "done"]
            /\ run' = [run EXCEPT ![p].cmd = TRUE, ![p].status = Replaced]
       ELSE /\ pc' = [pc EXCEPT ![p] = "drop"]
            /\ \E code \in ToolCodes :
                run' = [run EXCEPT ![p].cmd = TRUE, ![p].result = <<"Ok", code>>]
    /\ UNCHANGED <<fs, now, step, args, action, meta, tmp, ret, res, wlog, err, prev,
                   owcall, runs, crashes, fails>>
    /\ UNCHANGED mainvars

\* try_main, lines 185-186 and 197: the tool cannot be started; exec or
\* status returns an error, which is try_main's value.
InvokeFail(p) ==
    /\ pc[p] = "invoke"
    /\ crashes + fails < MaxFaults
    /\ fails' = fails + 1
    /\ pc' = [pc EXCEPT ![p] = "drop"]
    /\ run' = [run EXCEPT ![p].cmd = TRUE, ![p].result = <<"Err">>]
    /\ err' = [err EXCEPT ![p] = "invoke"]
    /\ UNCHANGED <<fs, now, step, args, action, meta, tmp, ret, res, wlog, prev,
                   owcall, runs, crashes>>
    /\ UNCHANGED mainvars

\* consts::MAX_CACHE_AGE_MS, in ticks of the clock.  The clock of the model
\* counts from a moment later than this age after the epoch, so that the
\* subtraction of line 221 does not wrap.
MAX_CACHE_AGE_MS == 2

\* A mutant of defer_clear_sweeps: the closure never calls clean_cache.
defer_clear_sweeps_never(cc) == FALSE

\* A mutant of defer_clear_sweeps: the closure does not look at clear_cache.
defer_clear_sweeps_always(cc) == TRUE

\* try_main, lines 170-174: the deferred closure calls clean_cache unless
\* the run has made a full clear.
defer_clear_sweeps(cc) == ~cc

\* try_main returns: what is left of the run is main (lines 38-46).
Return(p) ==
    /\ pc' = [pc EXCEPT ![p] = IF run[p].result[1] = "Ok" THEN "done" ELSE "error"]
    /\ run' = [run EXCEPT ![p].status = Exited(main_exit(run[p].result))]

\* try_main, lines 168-177 and 203: the scope of _defer_clear ends and the
\* deferred closure runs.
DropDefer(p) ==
    /\ pc[p] = "drop"
    /\ IF defer_runs(FALSE) /\ defer_clear_sweeps(args[p].clear_cache)
       THEN /\ pc' = [pc EXCEPT ![p] = "clean_cache"]
            /\ sw' = [sw EXCEPT ![p] =
                    [NoSweep EXCEPT !.max_age = MAX_CACHE_AGE_MS, !.caller = "defer"]]
            /\ run' = [run EXCEPT ![p].swept = TRUE]
       ELSE /\ Return(p)
            /\ sw' = sw
    /\ UNCHANGED <<fs, now, step, args, action, meta, tmp, ret, res, wlog, err, prev,
                   owcall, runs, crashes, fails, cache, unix, env>>

\* ----------------------------------------------------------------- eviction
\* A mutant of Children: the directories of the root are not listed.
Children_files_only(f, c) == {<<"file", n>> : n \in c.files}

\* fs::read_dir of the generated-projects root: its directories and files.
Children(f, c) ==
    {d \in CacheEntries : f[d].exists} \cup {<<"file", n>> : n \in c.files}

\* A mutant of remove_dir: every entry is to be removed, whatever its age.
remove_dir_always(f, d, cutoff, opens) == TRUE

\* A mutant of remove_dir: an entry exactly as old as the cutoff is kept.
remove_dir_younger(f, d, cutoff, opens) ==
    IF ~opens \/ ~f[d].exists \/ f[d].files[MetadataFile] = None THEN TRUE
    ELSE f[d].files[MetadataFile][1].mtime < cutoff

\* clean_cache, lines 234-259: the entry is to be removed when its metadata
\* file cannot be opened or was last modified at the cutoff or before it.
remove_dir(f, d, cutoff, opens) ==
    IF ~opens \/ ~f[d].exists \/ f[d].files[MetadataFile] = None THEN TRUE
    ELSE f[d].files[MetadataFile][1].mtime <= cutoff

\* A mutant of remove_bin_cache: only what the build tool made is removed.
remove_bin_cache_tracked(c) ==
    IF c.bin = None THEN c
    ELSE [c EXCEPT !.bin = Some(c.bin[1] \ {"release"})]

\* clean_cache, lines 215-216: fs::remove_dir_all of the binary cache.
remove_bin_cache(c) == [c EXCEPT !.bin = None]

\* A mutant of remove_failed: the error of a removal ends the sweep.
remove_failed_aborts(todo, child) == {}

\* clean_cache, lines 263-265: the error of a removal is logged, and the
\* loop goes on with the children that are left.
remove_failed(todo, child) == todo \ {child}

\* clean_cache returns r to its caller: to try_main's line 65, where an
\* error ends the run and Ok lets it go on; to the deferred closure, whose
\* own result is dropped when try_main returns; or to a caller that only
\* called clean_cache.
CleanCacheReturn(p, s, r) ==
    /\ sw' = [sw EXCEPT ![p] = [s EXCEPT !.result = r, !.todo = {}]]
    /\ IF s.caller = "main"
       THEN IF r = "Err"
            THEN /\ pc' = [pc EXCEPT ![p] = "error"]
                 /\ err' = [err EXCEPT ![p] = "clean_cache"]
                 /\ run' = [run EXCEPT ![p] =
                         [@ EXCEPT !.io = Append(@, "clean_cache"),
                                   !.result = <<"Err">>,
                                   !.status = Exited(main_exit(<<"Err">>))]]
                 /\ UNCHANGED <<args, action, meta, env>>
            ELSE Resume(p, args[p], <<"clean_cache">>)
       ELSE IF s.caller = "defer"
       THEN /\ Return(p)
            /\ UNCHANGED <<args, action, meta, err, env>>
       ELSE /\ pc' = [pc EXCEPT ![p] = "cc_ret"]
            /\ UNCHANGED <<args, action, meta, err, env, run>>

\* clean_cache, lines 211-225: with max_age 0 the binary cache is removed
\* (an error is logged); the cutoff is taken and the generated-projects
\* root is read, where an error is returned.
CleanCacheBegin(p, fault) ==
    /\ pc[p] = "clean_cache"
    /\ fault # "none" => crashes + fails < MaxFaults
    /\ fault = "remove" => (sw[p].max_age = 0 /\ cache.bin # None)
    /\ fails' = IF fault = "none" THEN fails ELSE fails + 1
    /\ cache' = IF sw[p].max_age = 0 /\ fault # "remove"
                THEN remove_bin_cache(cache) ELSE cache
    /\ LET s == [sw[p] EXCEPT !.cutoff = now - sw[p].max_age, !.before = fs,
                              !.bin_before = cache.bin, !.result = "running",
                              !.failed = IF fault = "remove" THEN {<<"bin", 0>>} ELSE {}]
       IN  IF cache.root /\ fault # "read_dir"
           THEN /\ pc' = [pc EXCEPT ![p] = "sweep"]
                /\ sw' = [sw EXCEPT ![p] = [s EXCEPT !.todo = Children(fs, cache)]]
                /\ UNCHANGED <<args, action, meta, err, env, run>>
           ELSE CleanCacheReturn(p, s, "Err")
    /\ UNCHANGED <<fs, now, step, tmp, ret, res, wlog, prev, owcall, runs, crashes, unix>>

\* clean_cache, lines 226-266: one child of the root.  A file is passed
\* over; a directory is removed when remove_dir says so, with every temporary
\* file open in it.
CleanCacheEntry(p, fault) ==
    /\ pc[p] = "sweep"
    /\ fault # "none" => crashes + fails < MaxFaults
    /\ fails' = IF fault = "none" THEN fails ELSE fails + 1
    /\ \E child \in sw[p].todo :
        LET is_file == child[1] = "file"
            rm == ~is_file /\ remove_dir(fs, child, sw[p].cutoff, fault # "open")
            gone == rm /\ fault # "remove" /\ fs[child].exists
            logged == rm /\ ~gone
        IN  /\ fault = "open" =>
                    (~is_file /\ fs[child].exists /\ fs[child].files[MetadataFile] # None)
            /\ fault = "remove" => (rm /\ fs[child].exists)
            /\ fs' = IF gone THEN [fs EXCEPT ![child] = NoDir] ELSE fs
            /\ tmp' = [q \in Procs |->
                    IF gone /\ tmp[q] # None /\ CallDir(q) = child
                    THEN Some([tmp[q][1] EXCEPT !.linked = FALSE])
                    ELSE tmp[q]]
            /\ sw' = [sw EXCEPT ![p].todo =
                            IF logged THEN remove_failed(@, child) ELSE @ \ {child},
                                ![p].failed = IF logged THEN @ \cup {child} ELSE @,
                                ![p].unopened = IF fault = "open" THEN @ \cup {child} ELSE @]
    /\ UNCHANGED <<now, pc, step, args, action, meta, ret, res, wlog, err, prev,
                   owcall, runs, crashes, cache, run, unix, env>>

\* clean_cache, lines 267-269: no child is left, Ok is returned.
CleanCacheEnd(p) ==
    /\ pc[p] = "sweep"
    /\ sw[p].todo = {}
    /\ CleanCacheReturn(p, sw[p], "Ok")
    /\ UNCHANGED <<fs, now, step, tmp, ret, res, wlog, prev, owcall, runs, crashes,
                   fails, cache, unix>>

\* The ages clean_cache is called with on its own.
MaxAges == {0, MAX_CACHE_AGE_MS, 6}

\* clean_cache is called on the cache as it is.
CleanCacheCall(p) ==
    /\ pc[p] \in {"idle", "cc_ret"}
    /\ runs < MaxRuns
    /\ runs' = runs + 1
    /\ pc' = [pc EXCEPT ![p] = "clean_cache"]
    /\ \E max_age \in MaxAges :
        sw' = [sw EXCEPT ![p] = [NoSweep EXCEPT !.max_age = max_age, !.caller = "lone"]]
    /\ UNCHANGED <<fs, now, step, args, action, meta, tmp, ret, res, wlog, err, prev,
                   owcall, crashes, fails, cache, run, unix, env>>

\* Time passes.
Tick ==
    /\ now < MaxTime
    /\ now' = now + 1
    /\ UNCHANGED <<fs, pc, step, args, action, meta, tmp, ret, res, wlog, err, prev,
                   owcall, runs, crashes, fails, run>>
    /\ UNCHANGED mainvars

\* The texts and previous hashes overwrite_file is called with on its own.
OwTexts == {split_input(FileInput(1, b), 1, 0).script : b \in Bodies}
OwHashes == {None} \cup {Some(hash_str(t)) : t \in OwTexts}

\* overwrite_file is called on a path of an existing directory; the call
\* remembers the file as it was and what the call before it returned.
OwCall(p) ==
    /\ pc[p] \in {"idle", "ow_ret"}
    /\ runs < MaxRuns
    /\ \E file \in {ManifestFile, ScriptFile(1)}, content \in OwTexts, hash \in OwHashes :
        owcall' = [owcall EXCEPT ![p] =
            [file |-> file, content |-> content, hash |-> hash,
             before |-> fs[UserDir(1)].files[file],
             last |-> IF pc[p] = "idle" THEN None
                      ELSE Some([file |-> owcall[p].file,
                                 content |-> owcall[p].content,
                                 ret |-> ret[p]])]]
    /\ pc' = [pc EXCEPT ![p] = "begin"]
    /\ step' = [step EXCEPT ![p] = 0]
    /\ ret' = [ret EXCEPT ![p] = None]
    /\ wlog' = [wlog EXCEPT ![p] = <<>>]
    /\ runs' = runs + 1
    /\ UNCHANGED <<fs, now, args, action, meta, tmp, res, err, prev, crashes, fails, run>>
    /\ UNCHANGED mainvars

\* ----------------------------------------------------------- specifications
\* Runs one after the other, any of which may fail or be killed.
Next ==
    \E p \in {1} :
        \/ Start(p, RunArgs)
        \/ CreateDir(p)
        \/ Begin(p)
        \/ Write(p)
        \/ Persist(p)
        \/ IOFail(p)
        \/ Crash(p)
        \/ Invoke(p)
        \/ DropDefer(p)
        \/ CleanCacheBegin(p, "none")
        \/ CleanCacheEntry(p, "none")
        \/ CleanCacheEnd(p)

Spec == Init /\ [][Next]_vars

\* Two invocations at once: plain runs in the cache of two variants of the
\* script that differ in body and dependencies.
ConcArgs ==
    {a \in RunArgs :
        /\ a.pkg_path = None /\ a.build_kind = "Normal" /\ ~a.force /\ ~a.gen_pkg_only
        /\ a.body = a.dep}

ConcNext ==
    \E p \in Procs :
        \/ Start(p, ConcArgs)
        \/ CreateDir(p)
        \/ Begin(p)
        \/ Write(p)
        \/ Persist(p)
        \/ IOFail(p)
        \/ Crash(p)
        \/ Invoke(p)

ConcSpec == Init /\ [][ConcNext]_vars

\* Planning alone, for every command line and every state of the target
\* directory: absent, empty, with metadata that does not decode, and as a
\* successful run leaves it.
BuiltDir(a) ==
    LET act == PlanOf(a, [d \in Dirs |-> NoDir])
        file(data) == Some([data |-> data, mtime |-> 0])
    IN  [EmptyDir EXCEPT
            !.files[ManifestFile] = file(act.manifest),
            !.files[ScriptFile(safe_name(InputOf(a)))] = file(act.script),
            !.files[MetadataFile] = file(Encode(act.metadata))]

DirStates ==
    {NoDir, EmptyDir, [EmptyDir EXCEPT !.files[MetadataFile] = Some([data |-> <<0>>, mtime |-> 0])]}
    \cup {BuiltDir(a) : a \in RunArgs}

DecideInit == \E ds \in DirStates : InitWith([d \in Dirs |-> ds])

DecideNext == \E p \in {1} : Start(p, AllArgs)

DecideSpec == DecideInit /\ [][DecideNext]_vars

\* A metadata file that cannot be read after it was opened.
UnreadableDir ==
    [EmptyDir EXCEPT !.files[MetadataFile] = Some([data |-> <<NotUtf8>>, mtime |-> 0])]

\* Planning as above, and for a target directory whose metadata file cannot
\* be read.
ReadInit == \E ds \in DirStates \cup {UnreadableDir} : InitWith([d \in Dirs |-> ds])

ReadSpec == ReadInit /\ [][DecideNext]_vars

\* overwrite_file alone, called again and again while time passes.
OwInit == InitWith([d \in Dirs |-> IF d = UserDir(1) THEN EmptyDir ELSE NoDir])

OwNext ==
    \/ Tick
    \/ \E p \in {1} :
        \/ OwCall(p)
        \/ Begin(p)
        \/ Write(p)
        \/ Persist(p)
        \/ IOFail(p)

OwSpec == OwInit /\ [][OwNext]_vars

\* clean_cache alone, at time 10, on a cache whose three entries are each
\* absent, without metadata, or hold metadata of age 10, 6, 5 or 1.
SweepAges == {10, 6, 5, 1}

AgedDir(age) ==
    [EmptyDir EXCEPT !.files[MetadataFile] =
        Some([data |-> Encode(input_meta(FileInput(1, 1), 1, 0, FALSE, 0)),
              mtime |-> 10 - age])]

SweepDirs == {NoDir, EmptyDir} \cup {AgedDir(age) : age \in SweepAges}

SweepInit ==
    \E f \in [Dirs -> SweepDirs], bin \in {None, Some(BinEntries)} :
        /\ \A d \in Dirs \ CacheEntries : f[d] = NoDir
        /\ \E d \in CacheEntries : f[d].exists
        /\ InitAll(f, [root |-> TRUE, files |-> RootFiles, bin |-> bin], TRUE, 10)

SweepNext ==
    \E p \in {1} :
        \/ CleanCacheCall(p)
        \/ \E fault \in {"none", "remove", "read_dir"} : CleanCacheBegin(p, fault)
        \/ \E fault \in {"none", "remove", "open"} : CleanCacheEntry(p, fault)
        \/ CleanCacheEnd(p)

SweepSpec == SweepInit /\ [][SweepNext]_vars

\* Whole runs of try_main, one after the other, on either platform: with and
\* without --clear-cache, of a script that is found or not, that renders or
\* not, with each of the --dep argument lists; the cache is empty or holds
\* two entries without metadata.
MainArgs ==
    {a \in [script : {1, NoScript}, body : {1, NoFile, BadBody},
            dep : 1..Len(DepArgs), debug : {FALSE}, force : {FALSE},
            gen_pkg_only : BOOLEAN, build_kind : {"Normal"}, pkg_path : {None},
            toolchain_version : {None}, features : {0}, cargo_output : {FALSE},
            clear_cache : BOOLEAN] :
        /\ a.script = NoScript => (a.clear_cache /\ a.body = 1 /\ a.dep = 1 /\ ~a.gen_pkg_only)
        /\ a.body # 1 => (a.dep = 1 /\ ~a.gen_pkg_only)
        /\ a.dep > 2 => ~a.gen_pkg_only}

RunInit ==
    \E old \in {NoDir, EmptyDir}, u \in BOOLEAN :
        LET f == [d \in Dirs |->
                    IF d \in {CacheDir(compute_id(FileInput(k, 1), 1)) : k \in OtherScripts}
                    THEN old ELSE NoDir]
        IN  InitAll(f, [root |-> old.exists, files |-> {}, bin |-> Some(BinEntries)], u, 0)

RunNext ==
    \E p \in {1} :
        \/ Start(p, MainArgs)
        \/ CreateDir(p)
        \/ Begin(p)
        \/ Write(p)
        \/ Persist(p)
        \/ IOFail(p)
        \/ Invoke(p)
        \/ InvokeFail(p)
        \/ DropDefer(p)
        \/ \E fault \in {"none", "remove", "read_dir"} : CleanCacheBegin(p, fault)
        \/ \E fault \in {"none", "remove", "open"} : CleanCacheEntry(p, fault)
        \/ CleanCacheEnd(p)

RunSpec == RunInit /\ [][RunNext]_vars

\* Planning by two invocations, of scripts at two paths with either body and
\* three dependency lists, in the cache and in a user's directory.
IdArgs ==
    {[NoArgs EXCEPT !.script = s, !.body = b, !.dep = d, !.pkg_path = k] :
        s \in {1, 2}, b \in Bodies, d \in {1, 2, 4},
        k \in {None} \cup {Some(u) : u \in UserPkgPaths}}

IdNext == \E p \in Procs : Start(p, IdArgs)

IdSpec == Init /\ [][IdNext]_vars

\* Input::package_name alone: the names of at most MaxNameLen characters
\* and the two names of test_package_name.
NameChars == {"1", "a", "S", "_", "-", "."}

Names ==
    UNION {[1..n -> NameChars] : n \in 0..MaxNameLen}
    \cup {<<"1", "S", "c", "r", "i", "p", "t">>, <<"S", "c", "r", "i", "p", "t">>}

\* try_main, lines 99-100, for an input with the name n.
SetVars(p) ==
    /\ \E n \in Names : env' = [env EXCEPT ![p] = set_vars(n)]
    /\ UNCHANGED <<fs, now, pc, step, args, action, meta, tmp, ret, res, wlog, err,
                   prev, owcall, runs, crashes, fails, cache, sw, run, unix>>

NameNext == \E p \in {1} : SetVars(p)

NameSpec == Init /\ [][NameNext]_vars

\* Whole runs of the script, one after the other, on either platform, for
\* every build kind, with and without --debug, --gen-pkg-only and a
\* toolchain, up to the command that is made for the tool.
CargoArgs ==
    {[NoArgs EXCEPT !.build_kind = k, !.debug = d, !.gen_pkg_only = g,
                    !.toolchain_version = t] :
        k \in BuildKinds, d \in BOOLEAN, g \in BOOLEAN, t \in {None, Some("beta")}}

CargoInit ==
    \E u \in BOOLEAN :
        InitAll([d \in Dirs |-> NoDir], CacheOf([d \in Dirs |-> NoDir]), u, 0)

CargoNext ==
    \E p \in {1} :
        \/ Start(p, CargoArgs)
        \/ CreateDir(p)
        \/ Begin(p)
        \/ Write(p)
        \/ Persist(p)
        \/ Invoke(p)
        \/ DropDefer(p)
        \/ CleanCacheBegin(p, "none")
        \/ CleanCacheEntry(p, "none")
        \/ CleanCacheEnd(p)

CargoSpec == CargoInit /\ [][CargoNext]_vars

\* Runs of the script in the cache, one after the other, on either platform,
\* with and without --gen-pkg-only, while time passes: between the steps of
\* gen_pkg_and_compile, while the tool runs, and before the deferred sweep.
AgeArgs == {[NoArgs EXCEPT !.gen_pkg_only = g] : g \in BOOLEAN}

AgeNext ==
    \/ Tick
    \/ \E p \in {1} :
        \/ Start(p, AgeArgs)
        \/ CreateDir(p)
        \/ Begin(p)
        \/ Write(p)
        \/ Persist(p)
        \/ Invoke(p)
        \/ DropDefer(p)
        \/ CleanCacheBegin(p, "none")
        \/ CleanCacheEntry(p, "none")
        \/ CleanCacheEnd(p)

AgeSpec == CargoInit /\ [][AgeNext]_vars

\* Two invocations at once: one builds the script in the cache, the other
\* generates the package of the script in a user's directory and then makes
\* its deferred sweep of the cache.
RaceBuilds == {NoArgs}

RaceSweepers == {[NoArgs EXCEPT !.pkg_path = Some(1), !.gen_pkg_only = TRUE]}

RaceNext ==
    \/ Start(1, RaceBuilds)
    \/ Start(2, RaceSweepers)
    \/ \E p \in Procs :
        \/ CreateDir(p)
        \/ Begin(p)
        \/ Write(p)
        \/ Persist(p)
        \/ Invoke(p)
        \/ DropDefer(p)
        \/ CleanCacheBegin(p, "none")
        \/ CleanCacheEntry(p, "none")
        \/ CleanCacheEnd(p)

RaceSpec == Init /\ [][RaceNext]_vars

\* ------------------------------------------------------------------ claims
\* gen_pkg_and_compile of p has returned Ok.
Materialized(p) == run[p].materialized

\* The manifest and the script in p's package directory hold the texts
\* rendered for p's input.
Fresh(p) ==
    LET d == fs[action[p].pkg_path]
        m == d.files[ManifestFile]
        s == d.files[ScriptFile(safe_name(InputOf(args[p])))]
    IN  /\ m # None /\ m[1].data = action[p].manifest
        /\ s # None /\ s[1].data = action[p].script

Written(p, kind) == \E i \in 1..Len(wlog[p]) : wlog[p][i] = kind

Settled(r) == r \in {Some("Same"), Some("Changed")}

\* C1: in every run the metadata file is replaced only after the manifest
\* write and the script write have both returned Same or Changed, only when
\* the plan emits metadata, and no file is replaced after it.
C1_MetadataLast ==
    \A p \in Procs : \A i \in 1..Len(wlog[p]) :
        wlog[p][i] = "metadata" =>
            /\ i = Len(wlog[p])
            /\ Settled(res[p].manifest) /\ Settled(res[p].script)
            /\ action[p].emit_metadata

\* A run that left the manifest alone, rewrote the script and then wrote the
\* metadata.
C1_Witness ==
    \E p \in Procs :
        /\ Materialized(p)
        /\ wlog[p] = <<"script", "metadata">>
        /\ res[p].manifest = Some("Same")

\* C2: whenever a run reaches the Invoke step after earlier runs that
\* succeeded or ended with an I/O failure (none was killed), the manifest and
\* the script in its package directory are the texts rendered for its input.
C2_NoStaleOutput ==
    \A p \in Procs : (pc[p] = "invoke" /\ crashes = 0) => Fresh(p)

\* C3: when the previous run on a cache slot was killed after a manifest or
\* script write and before its metadata write, the next successful
\* materialize leaves the manifest and the script of its own input on disk.
C3_CrashRecovery ==
    \A p \in Procs :
        (/\ Materialized(p) /\ action[p].using_cache /\ fails = 0
         /\ prev[p].end = "crash_mid" /\ prev[p].dir = action[p].pkg_path)
        => Fresh(p)

\* C4: when a step of gen_pkg_and_compile after the directory's creation
\* fails, a cache-managed package directory is removed whole by the step that
\* returns the error and a user-specified one is left exactly as it was; a
\* step that does not fail removes neither the directory nor a file of it.
C4_FailurePolicy ==
    [][\A p \in Procs :
        LET d == action[p].pkg_path
        IN  (pc[p] \in {"begin", "write", "persist"} /\ Kind(p) # "lone"
                /\ pc'[p] # pc[p]) =>
            IF pc'[p] = "error"
            THEN IF action[p].using_cache THEN fs'[d] = NoDir ELSE fs'[d] = fs[d]
            ELSE pc'[p] # "crashed" =>
                 /\ fs'[d].exists = fs[d].exists
                 /\ \A f \in FileNames : fs[d].files[f] # None => fs'[d].files[f] # None
      ]_vars

\* The metadata write of a run in the cache failed after its manifest and
\* script were written, and the directory is gone.
C4_Witness ==
    \E p \in Procs :
        /\ pc[p] = "error" /\ err[p] = "metadata"
        /\ action[p].using_cache
        /\ Written(p, "manifest") /\ Written(p, "script")
        /\ fs[action[p].pkg_path] = NoDir

\* The complete contents a write can give a file: a rendered manifest, a
\* rendered script, an encoded metadata record.
WholeManifests ==
    {split_input(FileInput(p, b), d, 0).manifest :
        p \in ScriptPaths, b \in Bodies, d \in DepLists}
WholeScripts ==
    {split_input(FileInput(p, b), d, 0).script :
        p \in ScriptPaths, b \in Bodies, d \in DepLists}
WholeMetadata ==
    {Encode(input_meta(FileInput(p, b), d, 0, g, 0)) :
        p \in ScriptPaths, b \in Bodies, d \in DepLists, g \in BOOLEAN}

WholeContents(file) ==
    IF file = ManifestFile THEN WholeManifests
    ELSE IF file = MetadataFile THEN WholeMetadata
    ELSE WholeScripts

Consistent(d, script) ==
    /\ get_pkg_metadata(fs, d) # None
    /\ fs[d].files[ManifestFile] # None
    /\ fs[d].files[script] # None
    /\ get_pkg_metadata(fs, d)[1].manifest_hash = hash_str(fs[d].files[ManifestFile][1].data)
    /\ get_pkg_metadata(fs, d)[1].script_hash = hash_str(fs[d].files[script][1].data)

\* C6: once two invocations on the same cache slot with different rendered
\* content have both finished materializing (neither failed, none was
\* killed), the metadata on disk records the hashes of the manifest and the
\* script on disk.
C6_ConsistentAfterBoth ==
    (/\ \A p \in Procs : Materialized(p)
     /\ action[1].pkg_path = action[2].pkg_path
     /\ <<action[1].manifest, action[1].script>> # <<action[2].manifest, action[2].script>>
     /\ runs = 2 /\ crashes = 0 /\ fails = 0)
    => Consistent(action[1].pkg_path, ScriptFile(safe_name(InputOf(args[1]))))

\* C7 as stated: with the force flag set both the manifest and the script are
\* rewritten.
C7_ForceRewritesBoth ==
    \A p \in Procs :
        (Materialized(p) /\ action[p].force_compile)
        => (Written(p, "manifest") /\ Written(p, "script"))

\* C7 as amended: with the force flag set the script is rewritten whatever
\* the previous metadata recorded, and the manifest is rewritten exactly when
\* its hash is not the one the previous metadata recorded.
C7_ForceRewritesScript ==
    \A p \in Procs :
        (Materialized(p) /\ action[p].force_compile)
        => /\ Written(p, "script") /\ res[p].script = Some("Changed")
           /\ Written(p, "manifest") <=>
                (action[p].old_metadata = None
                 \/ action[p].old_metadata[1].manifest_hash # hash_str(action[p].manifest))

\* A forced run whose texts are those the previous metadata recorded: the
\* script is rewritten, the manifest is not.
C7_Witness ==
    \E p \in Procs :
        /\ Materialized(p) /\ action[p].force_compile
        /\ action[p].old_metadata # None
        /\ action[p].old_metadata[1].script_hash = hash_str(action[p].script)
        /\ action[p].old_metadata[1].manifest_hash = hash_str(action[p].manifest)
        /\ Written(p, "script") /\ ~Written(p, "manifest")

\* C8: a plan for a Test or Bench build has force-compile disabled and no
\* previous metadata, whatever the flags and the target directory.
C8_TestBenchPlan ==
    \A p \in Procs :
        (pc[p] # "idle" /\ action[p].build_kind \in {"Test", "Bench"})
        => (~action[p].force_compile /\ action[p].old_metadata = None)

\* A Bench plan made with --force and --gen-pkg-only for a directory whose
\* metadata decodes.
C8_Witness ==
    \E p \in Procs :
        /\ pc[p] # "idle" /\ action[p].build_kind = "Bench"
        /\ args[p].force /\ args[p].gen_pkg_only
        /\ get_pkg_metadata(fs, action[p].pkg_path) # None
        /\ ~action[p].force_compile

\* The lone call of p repeats its previous call: the same path, the same
\* content, and as previous hash the hash that call returned.
Repeats(p) ==
    /\ owcall[p].last # None
    /\ owcall[p].last[1].file = owcall[p].file
    /\ owcall[p].last[1].content = owcall[p].content
    /\ owcall[p].last[1].ret[1] = "Changed"
    /\ owcall[p].hash = Some(owcall[p].last[1].ret[2])

\* C9: a second overwrite_file call on the same path with the same content
\* and the hash the first call returned returns Same, replaces nothing, and
\* leaves the file, its modification time included, as it was.
C9_SecondCallSame ==
    \A p \in Procs :
        (pc[p] = "ow_ret" /\ Repeats(p))
        => /\ ret[p] = <<"Same">>
           /\ wlog[p] = <<>>
           /\ fs[UserDir(1)].files[owcall[p].file] = owcall[p].before

\* A repeated call has returned at a later time than the file was written.
C9_Witness ==
    \E p \in Procs :
        /\ pc[p] = "ow_ret" /\ Repeats(p) /\ ret[p] = <<"Same">>
        /\ fs[UserDir(1)].files[owcall[p].file] # None
        /\ fs[UserDir(1)].files[owcall[p].file][1].mtime < now

\* C10: when overwrite_file returns Changed, the hash it returns is the hash
\* of the content that is at the destination.
C10_ChangedHashOnDisk ==
    \A p \in Procs :
        (pc[p] = "ow_ret" /\ ret[p] # None /\ ret[p][1] = "Changed")
        => /\ fs[UserDir(1)].files[owcall[p].file] # None
           /\ hash_str(fs[UserDir(1)].files[owcall[p].file][1].data) = ret[p][2]

\* A call has returned Changed after replacing a file that held another text.
C10_Witness ==
    \E p \in Procs :
        /\ pc[p] = "ow_ret" /\ ret[p] # None /\ ret[p][1] = "Changed"
        /\ owcall[p].before # None
        /\ owcall[p].before[1].data # owcall[p].content
        /\ fs[UserDir(1)].files[owcall[p].file][1].data = owcall[p].content

\* A clean_cache call of p with a positive max_age, made on its own, has
\* returned Ok and no removal of it failed.
SweptAlone(p) ==
    /\ pc[p] = "cc_ret"
    /\ sw[p].result = "Ok"
    /\ sw[p].max_age > 0
    /\ sw[p].failed = {}

\* The metadata file of the entry d, as the call of p found it, could not be
\* opened or was not there.
NoMetadata(p, d) ==
    d \in sw[p].unopened \/ sw[p].before[d].files[MetadataFile] = None

\* C11 as stated: an age-based sweep removes an entry directory when its
\* metadata file is missing or cannot be opened or was modified before
\* now - max_age, and leaves every other entry as it was.
C11_RemovesOlder ==
    \A p \in Procs : SweptAlone(p) =>
        \A d \in CacheEntries :
            LET b == sw[p].before[d]
            IN  fs[d] = IF b.exists /\ (NoMetadata(p, d)
                            \/ b.files[MetadataFile][1].mtime < now - sw[p].max_age)
                        THEN NoDir ELSE b

\* C11 as amended: an age-based sweep removes an entry directory when its
\* metadata file is missing or cannot be opened or was modified at
\* now - max_age or before, and leaves every other entry as it was.
C11_RemovesAtCutoff ==
    \A p \in Procs : SweptAlone(p) =>
        \A d \in CacheEntries :
            LET b == sw[p].before[d]
            IN  fs[d] = IF b.exists /\ (NoMetadata(p, d)
                            \/ b.files[MetadataFile][1].mtime <= now - sw[p].max_age)
                        THEN NoDir ELSE b

\* The sweep with max_age 6 of entries of age 10, 5 and 1 has removed the
\* first and left the other two.
C11_Witness ==
    \E p \in Procs : \E d1, d2, d3 \in CacheEntries :
        /\ SweptAlone(p) /\ sw[p].max_age = 6
        /\ sw[p].before[d1] = AgedDir(10) /\ fs[d1] = NoDir
        /\ sw[p].before[d2] = AgedDir(5) /\ fs[d2] = AgedDir(5)
        /\ sw[p].before[d3] = AgedDir(1) /\ fs[d3] = AgedDir(1)

\* C12: after a clean_cache call with max_age 0 whose removal of the binary
\* cache did not fail, the binary cache is gone, whatever it held.
C12_FullClearRemovesBin ==
    \A p \in Procs :
        (pc[p] = "cc_ret" /\ sw[p].max_age = 0 /\ <<"bin", 0>> \notin sw[p].failed)
        => cache.bin = None

\* A full clear has removed a binary cache that held an entry nothing of the
\* program knows.
C12_Witness ==
    \E p \in Procs :
        /\ pc[p] = "cc_ret" /\ sw[p].max_age = 0
        /\ sw[p].bin_before # None /\ "stray" \in sw[p].bin_before[1]
        /\ cache.bin = None

\* The entry d, as the clean_cache call of p found it, was to be removed.
ToRemove(p, d) ==
    LET b == sw[p].before[d]
    IN  /\ b.exists
        /\ \/ NoMetadata(p, d)
           \/ b.files[MetadataFile][1].mtime <= now - sw[p].max_age

\* C13: when a clean_cache call in which the removal of an entry failed
\* returns, it returns Ok, every other entry that was to be removed is
\* removed, and the run goes on as it would have: after a full clear it does
\* not end with clean_cache's error, after the deferred sweep it exits with
\* the status of what try_main returned.
C13_RemovalFailureSkipped ==
    [][\A p \in Procs :
        (pc[p] = "sweep" /\ pc'[p] # "sweep" /\ sw[p].failed \cap CacheEntries # {}) =>
            /\ sw'[p].result = "Ok"
            /\ \A d \in CacheEntries \ sw[p].failed : ToRemove(p, d) => fs[d] = NoDir
            /\ err'[p] # "clean_cache"
            /\ sw[p].caller = "defer" =>
                    /\ run'[p].status = Exited(main_exit(run[p].result))
                    /\ pc'[p] = IF run[p].result[1] = "Ok" THEN "done" ELSE "error"
      ]_vars

\* The deferred sweep of a run that generated its package only could not
\* remove one entry, has removed another, and the run has exited with 0.
C13_Witness ==
    \E p \in Procs : \E d \in CacheEntries :
        /\ pc[p] = "done" /\ sw[p].caller = "defer" /\ sw[p].result = "Ok"
        /\ sw[p].failed \cap CacheEntries # {}
        /\ d \notin sw[p].failed /\ sw[p].before[d].exists /\ fs[d] = NoDir
        /\ run[p].status = Exited(0)

\* C14: a run that ends on an invalid dependency list has made no file
\* system operation before: no cache was cleared, no file was opened or
\* read, no directory was created.
C14_ValidationBeforeIO ==
    \A p \in Procs :
        err[p] = "dependencies" =>
            /\ run[p].io = <<>>
            /\ sw[p].result = "none"

\* The metadata of the package directory of p's command line cannot be had.
NoOldMetadata(p) ==
    get_pkg_metadata(fs,
        IF args[p].pkg_path = None
        THEN CacheDir(compute_id(InputOf(args[p]), DepsOf(args[p])))
        ELSE UserDir(args[p].pkg_path[1])) = None

\* C15: planning a Normal build whose previous metadata cannot be had (the
\* file is missing, cannot be opened, cannot be read, cannot be decoded)
\* returns a plan without previous metadata, and the run goes on.
C15_ReadFailureIsCacheMiss ==
    \A p \in Procs :
        (pc[p] # "idle" /\ args[p].build_kind = "Normal" /\ NoOldMetadata(p))
        => (pc[p] = "create_dir" /\ action[p].old_metadata = None)

\* C16: the deferred age-based sweep of a run is called only after
\* gen_pkg_and_compile of that run has returned Ok, and never in a run with
\* --clear-cache.
C16_SweepAfterMaterialize ==
    \A p \in Procs :
        (run[p].swept \/ (sw[p].caller = "defer" /\ sw[p].result # "none"))
        => (run[p].materialized /\ ~args[p].clear_cache)

\* The deferred sweep of a run that has materialized is under way.
C16_Witness ==
    \E p \in Procs :
        /\ pc[p] = "sweep" /\ sw[p].caller = "defer"
        /\ run[p].swept /\ run[p].materialized
        /\ Written(p, "metadata")

\* C17: a run in which decide_action_for or gen_pkg_and_compile returned an
\* error has constructed no command, and has exited with a nonzero status.
C17_ErrorBeforeInvoke ==
    \A p \in Procs :
        err[p] \in {"decide", "create_dir", "manifest", "script", "metadata"} =>
            /\ ~run[p].cmd
            /\ pc[p] = "error"
            /\ run[p].status # None
            /\ run[p].status[1].how = "exit" /\ run[p].status[1].code # 0

\* A run whose script write failed after its manifest was written has exited
\* with status 1.
C17_Witness ==
    \E p \in Procs :
        /\ err[p] = "script" /\ Written(p, "manifest")
        /\ ~run[p].cmd /\ run[p].status = Exited(1)

\* C18: a run without --clear-cache whose gen_pkg_and_compile returned Ok
\* and whose process image was not replaced has called the age-based sweep,
\* and the sweep has returned, when the process exits.
C18_SweepBeforeExit ==
    \A p \in Procs :
        (/\ pc[p] \in {"done", "error"}
         /\ run[p].materialized /\ ~args[p].clear_cache
         /\ run[p].status # Replaced)
        => /\ run[p].swept
           /\ sw[p].caller = "defer" /\ sw[p].max_age = MAX_CACHE_AGE_MS
           /\ sw[p].result \in {"Ok", "Err"}

\* Under cfg(unix) the tool could not be started: the sweep has run and the
\* process has exited with status 1.
C18_Witness ==
    \E p \in Procs :
        /\ unix /\ pc[p] = "error" /\ err[p] = "invoke"
        /\ run[p].swept /\ sw[p].result = "Ok"
        /\ run[p].status = Exited(1)

\* p has a plan for a script file that is built in the cache.
PlannedInCache(p) ==
    /\ pc[p] = "create_dir"
    /\ InputOf(args[p]).kind = "File"
    /\ action[p].using_cache

\* Two invocations with plans for the script at one absolute path.
SameScriptPath(p, q) ==
    /\ PlannedInCache(p)
    /\ PlannedInCache(q)
    /\ InputOf(args[p]).path = InputOf(args[q]).path

\* The metadata m without its two hashes.
WithoutHashes(m) == [m EXCEPT !.manifest_hash = 0, !.script_hash = 0]

\* C19 as stated: two invocations with the script at the same absolute path,
\* whatever its content and the dependency lists, get the same identity and
\* the same package directory in the cache, and their metadata differ in the
\* two hashes only.
C19_OnlyHashesDiffer ==
    \A p, q \in Procs :
        SameScriptPath(p, q) =>
            /\ compute_id(InputOf(args[p]), DepsOf(args[p]))
                 = compute_id(InputOf(args[q]), DepsOf(args[q]))
            /\ action[p].pkg_path = action[q].pkg_path
            /\ WithoutHashes(action[p].metadata) = WithoutHashes(action[q].metadata)

\* C19 amended: two invocations with the script at the same absolute path,
\* whatever its content and the dependency lists, get the same identity and
\* the same package directory in the cache; their metadata differ in the
\* two hashes and in the recorded dependency list only, and in the hashes
\* only when the dependency lists are the same.
C19_SamePathSameSlot ==
    \A p, q \in Procs :
        SameScriptPath(p, q) =>
            /\ compute_id(InputOf(args[p]), DepsOf(args[p]))
                 = compute_id(InputOf(args[q]), DepsOf(args[q]))
            /\ action[p].pkg_path = action[q].pkg_path
            /\ [WithoutHashes(action[p].metadata) EXCEPT !.deps = 0]
                 = [WithoutHashes(action[q].metadata) EXCEPT !.deps = 0]
            /\ (DepsOf(args[p]) = DepsOf(args[q])
                    => WithoutHashes(action[p].metadata)
                        = WithoutHashes(action[q].metadata))

\* Two invocations have plans for the script at one path, with different
\* content and different dependency lists.
C19_Witness ==
    \E p, q \in Procs :
        /\ SameScriptPath(p, q)
        /\ args[p].body # args[q].body
        /\ DepsOf(args[p]) # DepsOf(args[q])
        /\ action[p].metadata.script_hash # action[q].metadata.script_hash
        /\ action[p].pkg_path = action[q].pkg_path

\* The number of characters package_name puts before those of the name n.
Escaped(n) == IF n # <<>> /\ n[1] \in Digits THEN 1 ELSE 0

\* The package name r is the name n character by character: a digit that
\* comes first has an underscore before it, an uppercase letter is there in
\* lowercase, a digit, a lowercase letter, an underscore and a hyphen are
\* kept, and any other character is an underscore.
BuiltFrom(n, r) ==
    /\ Len(r) = Len(n) + Escaped(n)
    /\ Escaped(n) = 1 => r[1] = "_"
    /\ \A i \in 1..Len(n) :
        LET c == n[i]
            out == r[i + Escaped(n)]
        IN  IF c \in Uppers THEN out \in Lowers /\ out = to_ascii_lowercase(c)
            ELSE IF c \in Digits \cup Lowers \cup {"_", "-"} THEN out = c
            ELSE out = "_"

\* C20: the package name derived from any name is built from it character
\* by character (leading digit escaped, uppercase folded, digits, lowercase,
\* underscore and hyphen kept, the rest replaced by an underscore); it never
\* starts with a digit and has no uppercase letter; "1Script" gives
\* "_1script" and "Script" gives "script".
C20_PackageName ==
    \A p \in Procs :
        LET n == env[p].safe_name
            r == env[p].pkg_name
        IN  /\ BuiltFrom(n, r)
            /\ r # <<>> => r[1] \notin Digits
            /\ \A i \in 1..Len(r) : r[i] \notin Uppers
            /\ (n = <<"1", "S", "c", "r", "i", "p", "t">>
                    => r = <<"_", "1", "s", "c", "r", "i", "p", "t">>)
            /\ (n = <<"S", "c", "r", "i", "p", "t">>
                    => r = <<"s", "c", "r", "i", "p", "t">>)

\* The package name of "1Script" has been derived: its digit is escaped and
\* its uppercase letter folded.
C20_Witness ==
    \E p \in Procs :
        /\ env[p].safe_name = <<"1", "S", "c", "r", "i", "p", "t">>
        /\ env[p].pkg_name = <<"_", "1", "s", "c", "r", "i", "p", "t">>

\* C21: the command made for the tool has --release exactly when the build
\* kind of the command line is Normal and its debug flag is not set; the
\* plan of a Test build has debug set and that of a Bench build has it
\* unset, whatever the command line's debug flag, and neither command has
\* --release.
C21_ReleaseFlag ==
    \A p \in Procs :
        run[p].cmd =>
            /\ CommandOf(p).release
                 <=> (args[p].build_kind = "Normal" /\ ~args[p].debug)
            /\ args[p].build_kind = "Test" =>
                    (action[p].metadata.debug /\ ~CommandOf(p).release)
            /\ args[p].build_kind = "Bench" =>
                    (~action[p].metadata.debug /\ ~CommandOf(p).release)

\* The command of a Bench build without --debug has been made: its plan
\* has debug unset and the command has no --release.
C21_Witness ==
    \E p \in Procs :
        /\ run[p].cmd
        /\ args[p].build_kind = "Bench" /\ ~args[p].debug
        /\ ~action[p].metadata.debug
        /\ CommandOf(p).subcommand = "Bench"
        /\ ~CommandOf(p).release

\* A clean_cache call of p with max_age 0, made on its own, has returned.
FullClearDone(p) == pc[p] = "cc_ret" /\ sw[p].max_age = 0

\* C22 as stated: a clean_cache call with max_age 0 leaves every entry
\* directory of the generated-projects root as it was, and returns Ok
\* whatever the state of that root.
C22_FullClearIgnoresEntries ==
    \A p \in Procs : FullClearDone(p) =>
        /\ \A d \in CacheEntries : fs[d] = sw[p].before[d]
        /\ sw[p].result = "Ok"

\* C22 amended: a clean_cache call with max_age 0 removes the binary cache
\* and then goes over the generated-projects root with the cutoff at the
\* current time: when it returns Ok and no removal failed, every entry
\* directory whose metadata file is missing, cannot be opened or was
\* modified at the current time or before is removed and every other entry
\* is as it was; when the root cannot be read it returns an error and the
\* entries are as they were.
C22_FullClearSweepsEntries ==
    \A p \in Procs : FullClearDone(p) =>
        /\ (sw[p].result = "Ok" /\ sw[p].failed \cap CacheEntries = {}) =>
                \A d \in CacheEntries :
                    fs[d] = IF ToRemove(p, d) THEN NoDir ELSE sw[p].before[d]
        /\ sw[p].result = "Err" =>
                \A d \in CacheEntries : fs[d] = sw[p].before[d]
        /\ sw[p].result \in {"Ok", "Err"}

\* A full clear has returned Ok and has removed an entry whose metadata was
\* one tick old, with the binary cache.
C22_Witness ==
    \E p \in Procs : \E d \in CacheEntries :
        /\ FullClearDone(p) /\ sw[p].result = "Ok"
        /\ sw[p].before[d] = AgedDir(1) /\ fs[d] = NoDir
        /\ sw[p].bin_before # None /\ cache.bin = None

\* gen_pkg_and_compile of p has returned Ok for a package in the cache.
MaterializedInCache(p) ==
    /\ run[p].materialized
    /\ action[p].using_cache
    /\ action[p].emit_metadata

\* The deferred sweep of p has returned Ok, and every removal it tried and
\* every metadata file it opened was without error.
OwnSweepDone(p) ==
    /\ pc[p] \in {"done", "error"}
    /\ run[p].swept
    /\ sw[p].caller = "defer" /\ sw[p].result = "Ok"
    /\ sw[p].failed = {} /\ sw[p].unopened = {}

\* The metadata file of p's package directory is there, holds the metadata
\* of this run, and no file of the directory was modified after it.
MetadataRefreshed(p) ==
    LET d == fs[action[p].pkg_path]
        m == d.files[MetadataFile]
    IN  /\ d.exists /\ m # None
        /\ m[1].data = Encode(meta[p])
        /\ \A f \in FileNames : d.files[f] # None => d.files[f][1].mtime <= m[1].mtime

\* C23 as stated: a run that has materialized its package in the cache has
\* replaced the metadata file, and its own deferred sweep never removes the
\* package directory.
C23_OwnSweepKeepsDir ==
    \A p \in Procs : MaterializedInCache(p) =>
        /\ Written(p, "metadata")
        /\ sw[p].result = "none" => MetadataRefreshed(p)
        /\ OwnSweepDone(p) => fs[action[p].pkg_path] = sw[p].before[action[p].pkg_path]

\* C23 amended: a run that has materialized its package in the cache has
\* replaced the metadata file, whatever the manifest and the script write
\* returned, and until its sweep starts no file of the directory is newer
\* than the metadata; its own deferred sweep leaves the package directory
\* as it was when the metadata file was modified after the sweep's cutoff,
\* that is when less than MAX_CACHE_AGE_MS passed between the metadata
\* write and the sweep, and removes it otherwise.
C23_OwnSweepKeepsFreshDir ==
    \A p \in Procs : MaterializedInCache(p) =>
        /\ Written(p, "metadata")
        /\ sw[p].result = "none" => MetadataRefreshed(p)
        /\ OwnSweepDone(p) =>
                LET b == sw[p].before[action[p].pkg_path]
                IN  fs[action[p].pkg_path] =
                        IF b.files[MetadataFile][1].mtime > sw[p].cutoff
                        THEN b ELSE NoDir

\* A run found the manifest and the script unchanged and replaced the
\* metadata file a tick after they were written; its deferred sweep, a tick
\* later, has left the package directory.
C23_Witness ==
    \E p \in Procs :
        LET d == fs[action[p].pkg_path]
        IN  /\ MaterializedInCache(p) /\ OwnSweepDone(p)
            /\ res[p].manifest = Some("Same") /\ res[p].script = Some("Same")
            /\ d.exists
            /\ d.files[ManifestFile][1].mtime < d.files[MetadataFile][1].mtime
            /\ d.files[MetadataFile][1].mtime > sw[p].cutoff
            /\ sw[p].cutoff + MAX_CACHE_AGE_MS > d.files[MetadataFile][1].mtime

\* p is in gen_pkg_and_compile for a package in the cache: the directory
\* is created and the metadata file is not replaced yet.
Materializing(p) ==
    /\ pc[p] \in {"begin", "write", "persist"}
    /\ Kind(p) # "lone"
    /\ action[p].using_cache
    /\ ~Written(p, "metadata")

\* C24: while an invocation is materializing a package in the cache, its
\* package directory is there with every file the invocation has replaced
\* in it, whatever sweep another invocation makes; and, no I/O operation
\* failing by itself, no write of its gen_pkg_and_compile returns an error.
C24_SweepSparesMaterializing ==
    \A p \in Procs :
        /\ Materializing(p) =>
                /\ fs[action[p].pkg_path].exists
                /\ \A i \in 1..Len(wlog[p]) :
                        fs[action[p].pkg_path].files[
                            IF wlog[p][i] = "manifest" THEN ManifestFile
                            ELSE ScriptFile(safe_name(InputOf(args[p])))] # None
        /\ fails = 0 => err[p] \notin {"manifest", "script", "metadata"}

====
